---- MODULE Spec2Model ----
(***************************************************************************)
(* A model of donut.go: the frame loop of main, its two rendering buffers, *)
(* the per-sample projection / depth test / luminance mapping, and the     *)
(* terminal output.                                                        *)
(*                                                                         *)
(* Numbers.  The program computes in float64.  The model computes in       *)
(* fixed point: a real v is the integer v * FixScale (four decimal         *)
(* digits).  Angles are integers in hundredths of a radian, the common     *)
(* unit of every angular step of the program (0.07, 0.02, 0.07, 0.03).     *)
(* Go's int(f) truncates toward zero and Go's % takes the sign of the      *)
(* dividend; GoInt and GoRem model both as Go computes them.               *)
(***************************************************************************)
EXTENDS Integers, Sequences, FiniteSets, TLC

(* ---------------------------- program constants ------------------------ *)
screenWidth == 40
screenHeight == 20
thetaSpacing == 7
phiSpacing == 2
incA == 7
incB == 3
viewDistance == 5
majorOffset == 2
scaleX == 15
scaleY == 7
lumFactor == 8
paletteSize == 12

colors == << "ESC[31m", "ESC[33m", "ESC[32m", "ESC[36m", "ESC[34m", "ESC[35m" >>
luminanceChars == << ".", ",", "-", "~", ":", ";", "=", "!", "*", "#", "$", "@" >>

CursorHome == "ESC[H"
ColorReset == "ESC[0m"
Blank == " "
Nul == "NUL"

(* ------------------------------- bounds -------------------------------- *)
MaxFrames == 2
MaxSamples == 2
MaxDepth == 2
LumMax == 24
LumDenom == 4
MaxAngleFrames == 90

(* ----------------------------- fixed point ----------------------------- *)
FixScale == 10000
TwoPi == 62832
Pi == TwoPi \div 2
HalfPi == TwoPi \div 4
AngleUnit == 100

\* a * b of two fixed-point numbers, rounded to the nearest
Mul(a, b) == (a * b + FixScale \div 2) \div FixScale

\* Go: int(f) for a float64 f, truncation toward zero
GoInt(v) ==
    CHOOSE r \in { IF w >= 0 THEN w \div FixScale ELSE -((-w) \div FixScale) :
                     w \in {v} } : TRUE

\* Go: a % b for b > 0, the remainder has the sign of a
GoRem(a, b) == IF a >= 0 THEN a % b ELSE -((-a) % b)

\* Taylor polynomial of sine on [0, pi/2], argument and result in fixed point
SinPoly(y) ==
    LET y2 == Mul(y, y)
        t3 == Mul(y, y2) \div 6
        t5 == Mul(t3, y2) \div 20
        t7 == Mul(t5, y2) \div 42
        t9 == Mul(t7, y2) \div 72
    IN  y - t3 + t5 - t7 + t9

\* sine of a fixed-point angle x >= 0 (radians * FixScale)
SinFix(x) ==
    LET r == x % TwoPi
    IN  IF r <= HalfPi THEN SinPoly(r)
        ELSE IF r <= Pi THEN SinPoly(Pi - r)
        ELSE IF r <= Pi + HalfPi THEN -SinPoly(r - Pi)
        ELSE -SinPoly(TwoPi - r)

SinTab == [n \in 0..(TwoPi \div AngleUnit) |-> SinFix(n * AngleUnit)] @@ << >>
CosTab == [n \in 0..(TwoPi \div AngleUnit) |-> SinFix(n * AngleUnit + HalfPi)] @@ << >>

\* math.Sin, math.Cos of an angle given in hundredths of a radian
Sin(a) == IF a >= 0 /\ a * AngleUnit <= TwoPi THEN SinTab[a] ELSE SinFix(a * AngleUnit)
Cos(a) == IF a >= 0 /\ a * AngleUnit <= TwoPi THEN CosTab[a] ELSE SinFix(a * AngleUnit + HalfPi)

\* the loop conditions theta < 2*math.Pi and phi < 2*math.Pi
InSweep(a) == a * AngleUnit < TwoPi


(* ------------------------- the sample of one (theta, phi) -------------- *)
\* sinA, cosA, sinB, cosB as precomputed once per frame
Rot(a, b) == [sinA |-> Sin(a), cosA |-> Cos(a), sinB |-> Sin(b), cosB |-> Cos(b)]

\* h := cosTheta + 2
TubeOffset(th) == Cos(th) + majorOffset * FixScale

\* variant: the major-radius offset taken for the viewing distance
DenominatorNear(th, ph, rot) ==
    Mul(Mul(Sin(ph), TubeOffset(th)), rot.sinA) + Mul(Sin(th), rot.cosA)
        + majorOffset * FixScale

\* sinPhi*h*sinA + sinTheta*cosA + 5
Denominator(th, ph, rot) ==
    Mul(Mul(Sin(ph), TubeOffset(th)), rot.sinA) + Mul(Sin(th), rot.cosA)
        + viewDistance * FixScale

\* D := 1 / denominator; float64 division yields +Inf on a zero denominator,
\* modelled by the largest depth of the fixed-point range
Recip(den) ==
    CHOOSE r \in { IF d = 0 THEN FixScale * FixScale
                   ELSE IF d > 0 THEN (FixScale * FixScale) \div d
                   ELSE -((FixScale * FixScale) \div (-d)) : d \in {den} } : TRUE

\* t := sinPhi*h*cosA - sinTheta*sinA
Coupling(sinTheta, sinPhi, h, rot) ==
    Mul(Mul(sinPhi, h), rot.cosA) - Mul(sinTheta, rot.sinA)

\* x := int(screenWidth/2 + 15*D*(cosPhi*h*cosB - t*sinB))
ProjectX(D, t, cosPhi, h, rot) ==
    GoInt( (screenWidth \div 2) * FixScale
           + scaleX * Mul(D, Mul(Mul(cosPhi, h), rot.cosB) - Mul(t, rot.sinB)) )

\* y := int(screenHeight/2 + 7*D*(cosPhi*h*sinB + t*cosB))
ProjectY(D, t, cosPhi, h, rot) ==
    GoInt( (screenHeight \div 2) * FixScale
           + scaleY * Mul(D, Mul(Mul(cosPhi, h), rot.sinB) + Mul(t, rot.cosB)) )

\* the float64 argument of N := int(8 * (...))
LumTerm(sinTheta, cosTheta, sinPhi, cosPhi, rot) ==
    lumFactor *
      ( Mul(Mul(sinTheta, rot.sinA) - Mul(Mul(sinPhi, cosTheta), rot.cosA), rot.cosB)
        - Mul(Mul(sinPhi, cosTheta), rot.sinA)
        - Mul(sinTheta, rot.cosA)
        - Mul(Mul(cosPhi, cosTheta), rot.sinB) )

\* x, y, D and the luminance term from D, t and the sines and cosines
Projected(D, t, sinTheta, cosTheta, sinPhi, cosPhi, h, rot) ==
    [ x |-> ProjectX(D, t, cosPhi, h, rot),
      y |-> ProjectY(D, t, cosPhi, h, rot),
      D |-> D,
      L |-> LumTerm(sinTheta, cosTheta, sinPhi, cosPhi, rot) ]

\* D and t from the sines and cosines of theta and phi
Transformed(th, ph, sinTheta, cosTheta, sinPhi, cosPhi, rot) ==
    CHOOSE r \in
      { Projected(D, t, sinTheta, cosTheta, sinPhi, cosPhi, h, rot) :
          h \in {TubeOffset(th)},
          D \in {Recip(Denominator(th, ph, rot))},
          t \in {Coupling(sinTheta, sinPhi, TubeOffset(th), rot)} } : TRUE

\* everything the loop body computes for one (theta, phi) before the depth
\* test (each intermediate value is bound to a variable: computed once)
Sample(th, ph, rot) ==
    CHOOSE r \in
      { Transformed(th, ph, sinTheta, cosTheta, sinPhi, cosPhi, rot) :
          sinPhi \in {Sin(ph)}, cosPhi \in {Cos(ph)},
          sinTheta \in {Sin(th)}, cosTheta \in {Cos(th)} } : TRUE

(* ------------------------------ the buffers ---------------------------- *)
Cells == 0..(screenWidth * screenHeight - 1)

\* make([]float64, W*H), make([]byte, W*H): zero values
MakeBuffers ==
    [ z |-> [i \in Cells |-> 0], o |-> [i \in Cells |-> Nul], panic |-> FALSE, n |-> 0 ]

\* variant: only the character buffer is cleared
ClearOutputOnly(buf) == [ buf EXCEPT !.o = [i \in DOMAIN buf.o |-> Blank] ]

\* variant: only the depth buffer is cleared
ClearDepthOnly(buf) == [ buf EXCEPT !.z = [i \in DOMAIN buf.o |-> 0] ]

\* for i := range output { output[i] = ' '; zBuffer[i] = 0 }
Clear(buf) ==
    [ buf EXCEPT !.o = [i \in DOMAIN buf.o |-> Blank],
                 !.z = [i \in DOMAIN buf.o |-> 0] ]

\* variant: the upper limits compared with <=
InBoundsInclusive(x, y) == y >= 0 /\ y <= screenHeight /\ x >= 0 /\ x <= screenWidth

\* y >= 0 && y < screenHeight && x >= 0 && x < screenWidth
InBounds(x, y) == y >= 0 /\ y < screenHeight /\ x >= 0 /\ x < screenWidth

\* variant: an equal depth also wins
DepthTestTies(D, cur) == D >= cur

\* D > zBuffer[pos]
DepthTest(D, cur) == D > cur

\* variant: no guard for N <= 0
LumIndexUnguarded(N) == GoRem(N, paletteSize)

\* the index into luminanceChars: N%12 if N > 0, else 0
LumIndex(N) == IF N > 0 THEN GoRem(N, paletteSize) ELSE 0

\* pos := x + screenWidth*y and the guarded update of both buffers; an index
\* outside a slice is a run-time panic
Plot(buf, x, y, D, N) ==
    LET pos == x + screenWidth * y
        idx == LumIndex(N)
    IN  IF ~InBounds(x, y) THEN buf
        ELSE IF pos \notin Cells THEN [buf EXCEPT !.panic = TRUE]
        ELSE IF ~DepthTest(D, buf.z[pos]) THEN buf
        ELSE IF idx \notin 0..(Len(luminanceChars) - 1)
             THEN [buf EXCEPT !.z[pos] = D, !.panic = TRUE]
        ELSE [buf EXCEPT !.z[pos] = D, !.o[pos] = luminanceChars[idx + 1]]

PlotSample(buf, s) == Plot(buf, s.x, s.y, s.D, GoInt(s.L))

\* the values a loop variable takes: 0, step, 2*step, ... while below 2*math.Pi
SweepCount(step) ==
    Cardinality({j \in 0..(TwoPi \div (AngleUnit * step)) : InSweep(j * step)})

PhiCount == SweepCount(phiSpacing)
ThetaCount == SweepCount(thetaSpacing)

\* the body of the phi loop for one phi: compute the sample, then plot it
PhiBody(buf, th, ph, rot) ==
    IF buf.panic THEN buf
    ELSE CHOOSE r \in { [PlotSample(buf, s) EXCEPT !.n = @ + 1] :
                          s \in {Sample(th, ph, rot)} } : TRUE

\* the same, with the arguments bound to variables so each is computed once
PhiStep(buf, th, ph, rot) ==
    CHOOSE r \in { PhiBody(b, t, p, q) :
                     b \in {buf}, t \in {th}, p \in {ph}, q \in {rot} } : TRUE

\* for phi := 0.0; phi < 2*math.Pi; phi += phiSpacing { ... }: iterations
\* lo..hi in order.  The range is halved to bound the depth of evaluation,
\* and every intermediate result is bound to a variable so that it is
\* computed once.
RECURSIVE SweepPhiRange(_, _, _, _, _)
RECURSIVE SweepPhiSplit(_, _, _, _, _, _)
SweepPhiRange(buf, th, lo, hi, rot) ==
    IF lo > hi THEN buf
    ELSE IF lo = hi THEN PhiStep(buf, th, lo * phiSpacing, rot)
    ELSE CHOOSE r \in { SweepPhiSplit(buf, th, lo, mid, hi, rot) :
                          mid \in {(lo + hi) \div 2} } : TRUE

SweepPhiSplit(buf, th, lo, mid, hi, rot) ==
    CHOOSE r \in { IF left.panic THEN left
                   ELSE SweepPhiRange(left, th, mid + 1, hi, rot) :
                     left \in {SweepPhiRange(buf, th, lo, mid, rot)} } : TRUE

SweepPhi(buf, th, rot) == SweepPhiRange([buf EXCEPT !.n = 0], th, 0, PhiCount - 1, rot)

\* for theta := 0.0; theta < 2*math.Pi; theta += thetaSpacing { ... }
RECURSIVE SweepThetaRange(_, _, _, _)
RECURSIVE SweepThetaSplit(_, _, _, _, _)
SweepThetaRange(buf, lo, hi, rot) ==
    IF lo > hi THEN buf
    ELSE IF lo = hi THEN SweepPhi(buf, lo * thetaSpacing, rot)
    ELSE CHOOSE r \in { SweepThetaSplit(buf, lo, mid, hi, rot) :
                          mid \in {(lo + hi) \div 2} } : TRUE

SweepThetaSplit(buf, lo, mid, hi, rot) ==
    CHOOSE r \in { IF left.panic THEN left
                   ELSE SweepThetaRange(left, mid + 1, hi, rot) :
                     left \in {SweepThetaRange(buf, lo, mid, rot)} } : TRUE

SweepAll(buf, rot) ==
    CHOOSE r \in { SweepThetaRange(buf, 0, ThetaCount - 1, r0) : r0 \in {rot} } : TRUE

\* one frame rendered with angles (a, b) into newly allocated buffers
Render(a, b) == SweepAll(Clear(MakeBuffers), Rot(a, b))

\* what one frame prints: cursor home, then per row the colour, the glyphs
\* one by one, and the colour reset
FrameText(o, ci) ==
    [ n \in 1..(1 + screenHeight * (screenWidth + 2)) |->
        IF n = 1 THEN CursorHome
        ELSE LET m == n - 2
                 i == m \div (screenWidth + 2)
                 k == m % (screenWidth + 2)
             IN  IF k = 0 THEN colors[ci + 1]
                 ELSE IF k = screenWidth + 1 THEN ColorReset
                 ELSE o[i * screenWidth + (k - 1)] ]

(* -------------------------------- state -------------------------------- *)
VARIABLES
    pc,          \* position of main in its loop
    zBuffer,     \* depth buffer
    output,      \* character buffer
    panicked,    \* an index went out of range
    A, B,        \* rotation angles, in hundredths of a radian
    sinA, cosA, sinB, cosB,  \* the per-frame locals
    theta,       \* outer sweep variable, in hundredths of a radian
    colorIndex,
    term,        \* everything printed so far, one element per print call
    frame,       \* history: number of completed angle updates
    nsamples,    \* history: samples processed in the current sweep
    hits,        \* history: the samples plotted since the last clear
    dens         \* the denominators of the row evaluated last

vars == << pc, zBuffer, output, panicked, A, B, sinA, cosA, sinB, cosB, theta,
           colorIndex, term, frame, nsamples, hits, dens >>

CurBuf == [z |-> zBuffer, o |-> output, panic |-> panicked, n |-> nsamples]
CurRot == [sinA |-> sinA, cosA |-> cosA, sinB |-> sinB, cosB |-> cosB]

Init ==
    /\ pc = "clear"
    /\ zBuffer = MakeBuffers.z
    /\ output = MakeBuffers.o
    /\ panicked = FALSE
    /\ A = 0 /\ B = 0
    /\ sinA = 0 /\ cosA = 0 /\ sinB = 0 /\ cosB = 0
    /\ theta = 0
    /\ colorIndex = 0
    /\ term = << >>
    /\ frame = 0
    /\ nsamples = 0
    /\ hits = << >>
    /\ dens = {}

\* top of the loop body: clear both buffers, precompute the trigonometry of A, B
ClearBuffers ==
    /\ pc = "clear"
    /\ \E b \in {Clear(CurBuf)} : zBuffer' = b.z /\ output' = b.o
    /\ sinA' = Sin(A) /\ cosA' = Cos(A) /\ sinB' = Sin(B) /\ cosB' = Cos(B)
    /\ theta' = 0
    /\ nsamples' = 0
    /\ hits' = << >>
    /\ pc' = IF InSweep(0) THEN "sweep" ELSE "display"
    /\ UNCHANGED << panicked, A, B, colorIndex, term, frame, dens >>

\* one iteration of the theta loop: the whole phi loop
SweepTheta ==
    /\ pc = "sweep"
    /\ ~panicked
    /\ InSweep(theta)
    /\ \E b \in {SweepPhi(CurBuf, theta, CurRot)} :
           zBuffer' = b.z /\ output' = b.o /\ panicked' = b.panic
           /\ nsamples' = nsamples + b.n
    /\ theta' = theta + thetaSpacing
    /\ pc' = IF InSweep(theta') THEN "sweep" ELSE "display"
    /\ UNCHANGED << A, B, sinA, cosA, sinB, cosB, colorIndex, term, frame, hits, dens >>

\* print the frame
Display ==
    /\ pc = "display"
    /\ ~panicked
    /\ colorIndex \in 0..(Len(colors) - 1)
    /\ term' = term \o FrameText(output, colorIndex)
    /\ pc' = "rotate"
    /\ UNCHANGED << zBuffer, output, panicked, A, B, sinA, cosA, sinB, cosB, theta,
                    colorIndex, frame, nsamples, hits, dens >>

\* variant: the two increments exchanged
RotateSwapped ==
    /\ pc = "rotate"
    /\ A' = A + incB
    /\ B' = B + incA
    /\ frame' = frame + 1
    /\ pc' = "sleep"
    /\ UNCHANGED << zBuffer, output, panicked, sinA, cosA, sinB, cosB, theta,
                    colorIndex, term, nsamples, hits, dens >>

\* A += 0.07; B += 0.03
Rotate ==
    /\ pc = "rotate"
    /\ A' = A + incA
    /\ B' = B + incB
    /\ frame' = frame + 1
    /\ pc' = "sleep"
    /\ UNCHANGED << zBuffer, output, panicked, sinA, cosA, sinB, cosB, theta,
                    colorIndex, term, nsamples, hits, dens >>

\* variant: the loop is left after the delay
SleepAndExit ==
    /\ pc = "sleep"
    /\ frame < MaxFrames
    /\ pc' = "exit"
    /\ UNCHANGED << zBuffer, output, panicked, A, B, sinA, cosA, sinB, cosB, theta,
                    colorIndex, term, frame, nsamples, hits, dens >>

\* time.Sleep, then back to the top of the loop
Sleep ==
    /\ pc = "sleep"
    /\ frame < MaxFrames
    /\ pc' = "clear"
    /\ UNCHANGED << zBuffer, output, panicked, A, B, sinA, cosA, sinB, cosB, theta,
                    colorIndex, term, frame, nsamples, hits, dens >>

Next == ClearBuffers \/ SweepTheta \/ Display \/ Rotate \/ Sleep

Spec == Init /\ [][Next]_vars

\* the program is one sequential thread that always takes its next step
FairSpec == Spec /\ WF_vars(Next)

(* ---------------- the update rule applied to given samples ------------- *)
\* the state in which a sweep begins: buffers cleared, trigonometry of (a, b)
SweepStart(k) ==
    /\ pc = "sweep"
    /\ zBuffer = Clear(MakeBuffers).z
    /\ output = Clear(MakeBuffers).o
    /\ panicked = FALSE
    /\ frame = k
    /\ A = k * incA /\ B = k * incB
    /\ sinA = Sin(A) /\ cosA = Cos(A) /\ sinB = Sin(B) /\ cosB = Cos(B)
    /\ theta = 0
    /\ colorIndex = 0
    /\ term = << >>
    /\ nsamples = 0
    /\ hits = << >>
    /\ dens = {}

\* the depth test and buffer update of the loop body for one sample s
PlotOne(s, limit) ==
    /\ pc = "sweep"
    /\ ~panicked
    /\ Len(hits) < limit
    /\ \E b \in {PlotSample(CurBuf, s)} :
           zBuffer' = b.z /\ output' = b.o /\ panicked' = b.panic
    /\ nsamples' = nsamples + 1
    /\ hits' = Append(hits, s)
    /\ UNCHANGED << pc, A, B, sinA, cosA, sinB, cosB, theta, colorIndex, term, frame, dens >>

\* screen coordinates on, at and beyond every edge of the screen
CoordSamples ==
    { << 0, 0 >>, << screenWidth - 1, screenHeight - 1 >>, << screenWidth, 0 >>,
      << 0, screenHeight >>, << -1, 1 >>, << 1, -1 >> }

\* positive depths (the program's D is positive) and two luminance terms
SampleSet ==
    { [x |-> c[1], y |-> c[2], D |-> d, L |-> l] :
        c \in CoordSamples, d \in 1..MaxDepth,
        l \in { FixScale + FixScale \div 2, 2 * FixScale } }

SampleInit == SweepStart(0)
SampleNext == \E s \in SampleSet : PlotOne(s, MaxSamples)
SampleSpec == SampleInit /\ [][SampleNext]_vars

\* one winning sample for every luminance term in [-LumMax, LumMax], in steps
\* of 1/LumDenom
LumSet ==
    { [x |-> 0, y |-> 0, D |-> 1, L |-> n * (FixScale \div LumDenom)] :
        n \in (-(LumMax * LumDenom))..(LumMax * LumDenom) }

LumNext == \E s \in LumSet : PlotOne(s, 1)
LumSpec == SampleInit /\ [][LumNext]_vars

(* ------------------ the denominator over sweep and rotation ------------ *)
\* the perspective denominators of one theta row, for the rotation of frame k
DenInit == \E k \in 0..MaxAngleFrames : SweepStart(k)

DenRow ==
    /\ pc = "sweep"
    /\ InSweep(theta)
    /\ dens' = { Denominator(theta, j * phiSpacing, CurRot) : j \in 0..(PhiCount - 1) }
    /\ theta' = theta + thetaSpacing
    /\ UNCHANGED << pc, zBuffer, output, panicked, A, B, sinA, cosA, sinB, cosB,
                    colorIndex, term, frame, nsamples, hits >>

DenSpec == DenInit /\ [][DenRow]_vars

(* =============================== claims =============================== *)
\* a sample's cell coordinates lie on the screen
OnScreen(s) == 0 <= s.x /\ s.x < screenWidth /\ 0 <= s.y /\ s.y < screenHeight

CellOf(s) == s.x + screenWidth * s.y

\* the glyph the program draws for sample s
GlyphOf(s) == luminanceChars[LumIndex(GoInt(s.L)) + 1]

\* indices of the plotted samples that are on screen and map to cell c
HitsAt(c) == { i \in 1..Len(hits) : OnScreen(hits[i]) /\ CellOf(hits[i]) = c }

\* C1: nearest wins. After any number of samples of one sweep, every cell's
\* depth is the maximum D of the on-screen samples mapped to it (0 if none) and
\* its glyph is that of the first sample, in sweep order, that attained the
\* maximum (blank if none).
NearestWins ==
    \A c \in Cells :
        LET hs == HitsAt(c)
        IN  IF hs = {} THEN zBuffer[c] = 0 /\ output[c] = Blank
            ELSE LET best == CHOOSE i \in hs :
                                /\ \A j \in hs : hits[j].D <= hits[i].D
                                /\ \A j \in hs : hits[j].D = hits[i].D => i <= j
                 IN  zBuffer[c] = hits[best].D /\ output[c] = GlyphOf(hits[best])

\* two samples in one cell, the nearer one first: the farther one did not win
NearestWinsWitness ==
    /\ Len(hits) = 2
    /\ OnScreen(hits[1]) /\ OnScreen(hits[2]) /\ CellOf(hits[1]) = CellOf(hits[2])
    /\ hits[1].D > hits[2].D
    /\ GlyphOf(hits[1]) # GlyphOf(hits[2])
    /\ output[CellOf(hits[1])] = GlyphOf(hits[1])

\* C2: the character buffer shown for a frame is the rendering of (A, B) into
\* freshly allocated buffers, whatever the buffers held from earlier frames.
FrameDependsOnAnglesOnly ==
    pc = "display" => output = Render(A, B).o

\* a later frame is about to be shown over buffers that held a different frame
FrameDependsOnAnglesOnlyWitness ==
    pc = "display" /\ frame = 1 /\ output # Render(0, 0).o

\* C3: the glyph of a winning sample with luminance term L is
\* palette[floor(L) mod 12] if floor(L) > 0 and palette[0] otherwise; the index
\* computed from int(L) is a valid palette index.
LuminanceMapping ==
    Len(hits) = 1 =>
        LET s == hits[1]
            N == s.L \div FixScale
        IN  /\ ~panicked
            /\ LumIndex(GoInt(s.L)) \in 0..(paletteSize - 1)
            /\ output[CellOf(s)] =
                 IF N > 0 THEN luminanceChars[(N % paletteSize) + 1]
                 ELSE luminanceChars[1]

\* a term strictly between -1 and 0: floor gives -1, int gives 0
LuminanceMappingWitness ==
    /\ Len(hits) = 1
    /\ hits[1].L < 0 /\ hits[1].L > -FixScale
    /\ output[CellOf(hits[1])] = luminanceChars[1]

\* C4: plotting a sample changes no cell other than x + W*y of an on-screen
\* (x, y), which is a valid index; an off-screen sample changes nothing; no
\* index ever goes out of range.
BoundsChecked ==
    [][ Len(hits') = Len(hits) + 1 =>
          LET s == hits'[Len(hits')]
          IN  /\ ~panicked'
              /\ OnScreen(s) => CellOf(s) \in Cells
              /\ ~OnScreen(s) => zBuffer' = zBuffer /\ output' = output
              /\ \A c \in Cells :
                    (zBuffer'[c] # zBuffer[c] \/ output'[c] # output[c])
                        => OnScreen(s) /\ c = CellOf(s) ]_vars

\* a sample with x = W whose linear index is a valid cell was discarded
BoundsCheckedWitness ==
    /\ Len(hits) = 1
    /\ hits[1].x = screenWidth /\ hits[1].y = 0
    /\ CellOf(hits[1]) \in Cells
    /\ zBuffer[CellOf(hits[1])] = 0 /\ output[CellOf(hits[1])] = Blank
    /\ ~panicked

\* C5: every perspective denominator of the sweep is positive, and so is D.
DenominatorPositive ==
    \A d \in dens : d > 0 /\ Recip(d) > 0

\* a row whose denominator comes close to its minimum 5 - 3
DenominatorPositiveWitness ==
    \E d \in dens : d < 2 * FixScale + FixScale \div 100

\* what one frame prints, in print calls
FrameLen == 1 + screenHeight * (screenWidth + 2)

\* C6: A and B are the number of frames shown so far times their increments,
\* change only by those increments, once per frame, and the sweep uses the
\* sine and cosine of exactly these angles.
RotationState ==
    /\ [](/\ A = frame * incA /\ B = frame * incB
          /\ pc \in {"clear", "sweep", "display"} => Len(term) = frame * FrameLen
          /\ pc \in {"rotate", "sleep"} => Len(term) = (frame + (IF pc = "rotate" THEN 1 ELSE 0)) * FrameLen
          /\ pc \in {"sweep", "display"} => CurRot = Rot(frame * incA, frame * incB))
    /\ [][ (A' # A \/ B' # B) =>
             /\ pc = "rotate"
             /\ A' = A + incA /\ B' = B + incB ]_vars

RotationStateWitness ==
    pc = "display" /\ frame = 1 /\ A = incA /\ B = incB /\ Len(term) = FrameLen

\* the phases of a frame in program order
PhaseAfter(p) ==
    CASE p = "clear" -> {"sweep"}
      [] p = "sweep" -> {"sweep", "display"}
      [] p = "display" -> {"rotate"}
      [] p = "rotate" -> {"sleep"}
      [] p = "sleep" -> {"clear"}

\* C7: the phases follow one another in the order clear, sweep, display,
\* (rotate,) sleep, clear, ...; display begins only after all theta x phi
\* samples were processed; every frame up to the bound is displayed; below
\* the bound the loop always has a next step.
FrameLoop ==
    /\ [][ /\ pc' \in PhaseAfter(pc)
           /\ (pc' = "display" /\ pc # "display") => nsamples' = ThetaCount * PhiCount
           /\ term' # term => pc = "display" ]_vars
    /\ \A k \in 1..MaxFrames : <>(Len(term) = k * FrameLen)
    /\ [](frame < MaxFrames => pc \in {"clear", "sweep", "display", "rotate", "sleep"})
    /\ [](frame < MaxFrames => ENABLED Next)

FrameLoopWitness ==
    pc = "clear" /\ frame = 1 /\ Len(term) = FrameLen

\* the control sequence that hides the cursor
HideCursor == "ESC[?25l"

\* C8: a hide-cursor sequence precedes the first cursor-home and the first
\* glyph on the terminal.
HideCursorFirst ==
    \A i \in 1..Len(term) :
        term[i] # HideCursor => \E j \in 1..(i - 1) : term[j] = HideCursor

ColorCodes == { colors[i] : i \in 1..Len(colors) }

\* C9: the colour code of the rows is not the same in every frame (and the
\* index is a valid palette index).
ColorCycles ==
    /\ colorIndex \in 0..(Len(colors) - 1)
    /\ (pc = "sleep" /\ frame = MaxFrames) =>
          \E i, j \in 1..Len(term) :
              term[i] \in ColorCodes /\ term[j] \in ColorCodes /\ term[i] # term[j]

\* C10: when a sweep begins every depth is 0 and every glyph is blank, and
\* both buffers have the W*H cells.
BuffersReset ==
    /\ DOMAIN zBuffer = Cells /\ DOMAIN output = Cells
    /\ (pc = "sweep" /\ nsamples = 0) =>
          \A c \in Cells : zBuffer[c] = 0 /\ output[c] = Blank

\* the sweep of a later frame begins, over buffers a frame was drawn into
BuffersResetWitness ==
    pc = "sweep" /\ nsamples = 0 /\ frame = 1 /\ Len(term) = FrameLen

====
